---- MODULE Spec2Model ----
(***************************************************************************)
(* Equipment status state machine of downtime_tracker.                     *)
(*                                                                         *)
(* Equipment.set_status (models.py) runs inside transaction.atomic.  The   *)
(* store is modelled with READ COMMITTED visibility: a transaction's       *)
(* writes (the StatusChangeLog row, the inserted or updated DowntimeEvent, *)
(* the Equipment row) are private until it commits, a plain SELECT sees    *)
(* committed rows only, SELECT ... FOR UPDATE takes a row lock and waits   *)
(* on a row locked by another transaction, and an INSERT that conflicts    *)
(* with the partial unique index waits for an in-doubt conflicting row.    *)
(* Every database statement of set_status is one atomic step, so requests  *)
(* interleave statement by statement.                                      *)
(*                                                                         *)
(* The callers load the Equipment object first (get_object_or_404 in       *)
(* views.change_status, queryset.first() in admin._bulk_change_status) and *)
(* call set_status on that in-memory object afterwards.                    *)
(***************************************************************************)
EXTENDS Integers, Sequences, FiniteSets, TLC

\* ---------------------------------------------------------------- bounds
MaxTime == 2          \* the clock runs over 1..MaxTime
MaxLogs == 2          \* requests are admitted while fewer log rows are committed

\* ------------------------------------------------------------- constants
EquipmentIds == {1, 2}
SingleUnit == {1}     \* the equipment the requests of Spec are made for
Requests == {"r1", "r2"}

UP == "UP"
DOWN == "DOWN"
Status == {UP, DOWN}

Null == 0             \* None / NULL for timestamps and row references
CreatedAt == 0        \* status_updated_at default of a freshly created row
NoCategory == "NONE"  \* DowntimeEvent has no category column in models.py
Categories == {"PLANNED", "UNPLANNED"}

\* raw new_status values a caller may pass
StatusInputs == {"UP", "DOWN", "up", " down ", "BROKEN"}
\* raw comments: sequences of characters, " " is whitespace
CommentInputs == { <<>>, <<" ">>, <<" ", "a", " ">> }
AdminComment == <<"A", "d">>
FormCategories == {"", "PLANNED", "UNPLANNED"}

\* ------------------------------------------------------ pure conversions
\* str(new_status).upper().strip()
NormStatus(s) ==
    CASE s = "UP" -> "UP"
      [] s = "up" -> "UP"
      [] s = "DOWN" -> "DOWN"
      [] s = " down " -> "DOWN"
      [] OTHER -> s

RECURSIVE LStrip(_)
LStrip(s) == IF s # <<>> /\ Head(s) = " " THEN LStrip(Tail(s)) ELSE s

RECURSIVE RStrip(_)
RStrip(s) ==
    IF s # <<>> /\ s[Len(s)] = " " THEN RStrip(SubSeq(s, 1, Len(s) - 1)) ELSE s

\* the comment taken as passed
StripNothing(s) == s

\* (comment or "").strip()
Strip(s) == RStrip(LStrip(s))

\* ------------------------------------------------------------------ state
VARIABLES
    eqStatus,      \* committed Equipment.status, per equipment
    eqUpdatedAt,   \* committed Equipment.status_updated_at
    events,        \* committed DowntimeEvent rows, in insertion order
    logs,          \* committed StatusChangeLog rows, in commit order
    now,           \* timezone.now()
    pc,            \* position of each request
    obj,           \* the in-memory Equipment object a request works on
    args,          \* arguments of the set_status call
    txLog,         \* StatusChangeLog row created inside the open transaction
    txEvent,       \* DowntimeEvent row written inside the open transaction
    target,        \* event row locked (or waited for) by select_for_update
    result,        \* outcome reported to the caller
    atCall,        \* committed state of the equipment when set_status began
    interfered,    \* another transition on the equipment committed since then
    hist,          \* per equipment: to_status of the committed transitions
    report,        \* what the last reporting view computed, with its inputs
    equipment      \* primary keys of the Equipment rows that exist

vars == << eqStatus, eqUpdatedAt, events, logs, now, pc, obj, args, txLog,
           txEvent, target, result, atCall, interfered, hist, report,
                    equipment >>

store == << eqStatus, eqUpdatedAt, events, logs >>

NoObj == [eq |-> 0, status |-> UP]
NoArgs == [new_status |-> UP, comment |-> <<>>, changed_at |-> Null]
NoRow == [eq |-> 0]
NoSnap == [status |-> UP, open |-> FALSE, nlogs |-> 0, nevents |-> 0]
NoReport == [view |-> "none"]

\* ---------------------------------------------------------------- queries
EventIds == 1..Len(events)

\* self.downtime_events.filter(ended_at__isnull=True), committed rows
OpenEvents(e) == { k \in EventIds : events[k].eq = e /\ events[k].ended_at = Null }

EventsOf(e) == { k \in EventIds : events[k].eq = e }
LogsOf(e) == { i \in 1..Len(logs) : logs[i].eq = e }

\* has_open_downtime / .filter(ended_at__isnull=True).exists()
HasOpenEvent(e) == OpenEvents(e) # {}

\* .order_by("-started_at").first() over the open events
FirstOpen(e) ==
    CHOOSE k \in OpenEvents(e) :
        \A j \in OpenEvents(e) :
            \/ events[j].started_at < events[k].started_at
            \/ (events[j].started_at = events[k].started_at /\ j >= k)

\* a row lock that a rollback does not release
HeldPastRollback(r, k) == pc[r] \in {"locked", "written", "failed"} /\ target[r] = k

\* row lock taken by select_for_update, held until commit or rollback
Holds(r, k) == pc[r] \in {"locked", "written"} /\ target[r] = k

\* a plain SELECT, which waits for nobody
NeverLocked(r, k) == FALSE

\* select_for_update(): the row is locked by another open transaction
LockedByOther(r, k) == \E q \in Requests \ {r} : Holds(q, k)

Snapshot(e) ==
    [status |-> eqStatus[e], open |-> HasOpenEvent(e),
     nlogs |-> Cardinality(LogsOf(e)), nevents |-> Cardinality(EventsOf(e))]

\* -------------------------------------------------------------------- init
InitWith(rows) ==
    /\ eqStatus = [e \in EquipmentIds |-> UP]
    /\ eqUpdatedAt = [e \in EquipmentIds |-> CreatedAt]
    /\ events = <<>>
    /\ logs = <<>>
    /\ now = 1
    /\ pc = [r \in Requests |-> "idle"]
    /\ obj = [r \in Requests |-> NoObj]
    /\ args = [r \in Requests |-> NoArgs]
    /\ txLog = [r \in Requests |-> NoRow]
    /\ txEvent = [r \in Requests |-> NoRow]
    /\ target = [r \in Requests |-> Null]
    /\ result = [r \in Requests |-> "none"]
    /\ atCall = [r \in Requests |-> NoSnap]
    /\ interfered = [r \in Requests |-> FALSE]
    /\ hist = [e \in EquipmentIds |-> <<>>]
    /\ report = NoReport
    /\ equipment = rows

\* every equipment of the fleet is registered
Init == InitWith(EquipmentIds)

\* ------------------------------------------------- set_status, statement level
\* line 89: changed_at = changed_at or timezone.now()
ResolveChangedAt(t) == IF t = Null THEN now ELSE t

\* line 90: old_status = self.status (the in-memory object, not re-read)
OldStatus(r) == obj[r].status

\* the no-op check applied to one direction only
IsNoOpOnlyUp(new_status, old_status) == new_status = old_status /\ new_status = UP

IsNoOpOnlyDown(new_status, old_status) == new_status = old_status /\ new_status = DOWN

\* line 93: if new_status == old_status: raise ValidationError
IsNoOp(new_status, old_status) == new_status = old_status

\* a log entry stamped with the time of the INSERT, not with changed_at
NewLogStampedNow(e, old_status, new_status, comment, changed_at) ==
    [eq |-> e, from_status |-> old_status, to_status |-> new_status,
     comment |-> comment, changed_at |-> now]

\* a log entry that records the status of the row read back after the
\* write as its from_status
NewLogFromWrittenStatus(e, old_status, new_status, comment, changed_at) ==
    [eq |-> e, from_status |-> new_status, to_status |-> new_status,
     comment |-> comment, changed_at |-> changed_at]

\* lines 97-104: StatusChangeLog.objects.create(...)
NewLog(e, old_status, new_status, comment, changed_at) ==
    [eq |-> e, from_status |-> old_status, to_status |-> new_status,
     comment |-> comment, changed_at |-> changed_at]

\* an event stamped with the time of the INSERT, not with changed_at
NewEventStartsNow(e, comment, changed_at) ==
    [eq |-> e, started_at |-> now, ended_at |-> Null,
     category |-> NoCategory, start_comment |-> comment,
     end_comment |-> <<>>, started_by_log |-> Null, ended_by_log |-> Null]

\* lines 111-117: DowntimeEvent.objects.create(...); no category is passed
NewEvent(e, comment, changed_at) ==
    [eq |-> e, started_at |-> changed_at, ended_at |-> Null,
     category |-> NoCategory, start_comment |-> comment,
     end_comment |-> <<>>, started_by_log |-> Null, ended_by_log |-> Null]

\* the close that forgets ended_at
ClosedEventNoEnd(ev, comment, changed_at) == [ev EXCEPT !.end_comment = comment]

\* lines 124-127: the end fields set on the open event
ClosedEvent(ev, comment, changed_at) ==
    [ev EXCEPT !.ended_at = changed_at, !.end_comment = comment]

\* full_clean() left out
CleanNeverFails(ev) == FALSE

\* a clean() that lets an event end at the instant it started
CleanFailsOnlyEarlier(ev) == ev.ended_at # Null /\ ev.ended_at < ev.started_at

\* DowntimeEvent.clean, run by full_clean()
CleanFails(ev) == ev.ended_at # Null /\ ev.ended_at <= ev.started_at

\* no partial unique index on open events
UniqueOpenNotEnforced(r, e) == FALSE

\* a unique index on open events that leaves the equipment out
UniqueOpenAcrossFleet(r, e) ==
    \E k \in EventIds :
        /\ events[k].ended_at = Null
        /\ ~ (\E q \in Requests \ {r} : pc[q] = "written" /\ target[q] = k)

\* UniqueConstraint unique_open_downtime_event_per_equipment: an open row of
\* the equipment that is committed and not being closed conflicts at once
UniqueOpenViolated(r, e) ==
    \E k \in OpenEvents(e) :
        ~ (\E q \in Requests \ {r} : pc[q] = "written" /\ target[q] = k)

\* the INSERT waits while a conflicting row is in doubt: inserted by an open
\* transaction, or committed open and being closed by an open transaction
InsertMustWait(r, e) ==
    \/ \E q \in Requests \ {r} :
          /\ pc[q] = "written" /\ target[q] = Null /\ txEvent[q].eq = e
    \/ /\ ~ UniqueOpenViolated(r, e)
       /\ \E k \in OpenEvents(e) :
             \E q \in Requests \ {r} : pc[q] = "written" /\ target[q] = k

\* the rows as the transaction of r has written them
WrittenLogs(r) == IF txLog[r] = NoRow THEN logs ELSE Append(logs, txLog[r])

WrittenEvents(r) ==
    LET lid == Len(logs) + 1 IN
    IF txEvent[r] = NoRow THEN events
    ELSE IF target[r] = Null
         THEN Append(events, [txEvent[r] EXCEPT !.started_by_log = lid])
         ELSE [events EXCEPT ![target[r]] =
                  [txEvent[r] EXCEPT !.ended_by_log = lid]]

\* autocommit: every statement that ran stays written
RolledBackNoAtomic(committed, written) == written

\* @transaction.atomic: an exception leaves the committed rows as they were
RolledBack(committed, written) == committed

\* a request ends with an exception of the given kind
Fail(r, kind) ==
    /\ pc' = [pc EXCEPT ![r] = "failed"]
    /\ result' = [result EXCEPT ![r] = kind]
    /\ logs' = RolledBack(logs, WrittenLogs(r))
    /\ events' = RolledBack(events, WrittenEvents(r))
    /\ txLog' = [txLog EXCEPT ![r] = NoRow]
    /\ txEvent' = [txEvent EXCEPT ![r] = NoRow]
    /\ UNCHANGED << eqStatus, eqUpdatedAt, now, hist, report,
                    equipment >>

\* get_object_or_404(Equipment, pk=pk) / queryset.first(): a request slot
\* starts its next request by loading the Equipment row
get_object(r, e) ==
    /\ pc[r] \in {"idle", "failed", "committed"}
    /\ Len(logs) < MaxLogs
    /\ pc' = [pc EXCEPT ![r] = "loaded"]
    /\ obj' = [obj EXCEPT ![r] = [eq |-> e, status |-> eqStatus[e]]]
    /\ args' = [args EXCEPT ![r] = NoArgs]
    /\ target' = [target EXCEPT ![r] = Null]
    /\ result' = [result EXCEPT ![r] = "none"]
    /\ atCall' = [atCall EXCEPT ![r] = NoSnap]
    /\ interfered' = [interfered EXCEPT ![r] = FALSE]
    /\ UNCHANGED << eqStatus, eqUpdatedAt, events, logs, now, txLog, txEvent,
                    hist, report,
                    equipment >>

\* set_status lines 81-104: validation and creation of the log row
set_status_begin(r, raw_status, raw_comment, raw_changed_at) ==
    LET e == obj[r].eq
        new_status == NormStatus(raw_status)
        comment == Strip(raw_comment)
        changed_at == ResolveChangedAt(raw_changed_at)
        old_status == OldStatus(r)
    IN
    /\ pc[r] = "loaded"
    /\ args' = [args EXCEPT ![r] = [new_status |-> new_status,
                                    comment |-> comment, changed_at |-> changed_at]]
    /\ atCall' = [atCall EXCEPT ![r] = Snapshot(e)]
    /\ interfered' = [interfered EXCEPT ![r] = FALSE]
    /\ UNCHANGED << obj, target, report,
                    equipment >>
    /\ IF new_status \notin Status THEN Fail(r, "InvalidStatus")
       ELSE IF comment = <<>> THEN Fail(r, "MissingComment")
       ELSE IF IsNoOp(new_status, old_status) THEN Fail(r, "NoOpTransition")
       ELSE /\ txLog' = [txLog EXCEPT ![r] =
                           NewLog(e, old_status, new_status, comment, changed_at)]
            /\ pc' = [pc EXCEPT ![r] = "logged"]
            /\ UNCHANGED << eqStatus, eqUpdatedAt, events, logs, now, txEvent,
                            result, hist >>

\* a caller of the engine that supplies every argument itself
apply_transition(r) ==
    \E s \in StatusInputs, c \in CommentInputs, t \in 0..MaxTime :
        set_status_begin(r, s, c, t)

\* admin.py _bulk_change_status: default comment, no changed_at
bulk_change_status(r) ==
    \E s \in Status : set_status_begin(r, s, AdminComment, Null)

\* the variables a statement after the call leaves alone
Later == << obj, args, atCall, interfered, report,
                    equipment >>

\* line 109: if self.downtime_events.filter(ended_at__isnull=True).exists()
check_open_exists(r) ==
    /\ pc[r] = "logged"
    /\ txLog[r].to_status = DOWN
    /\ UNCHANGED << Later, target >>
    /\ IF HasOpenEvent(obj[r].eq) THEN Fail(r, "DuplicateOpenEvent")
       ELSE /\ pc' = [pc EXCEPT ![r] = "checked"]
            /\ UNCHANGED << eqStatus, eqUpdatedAt, events, logs, now, txLog,
                            txEvent, result, hist >>

\* lines 111-117: the INSERT, checked by the partial unique index
create_downtime_event(r) ==
    LET e == obj[r].eq IN
    /\ pc[r] = "checked"
    /\ ~ InsertMustWait(r, e)
    /\ UNCHANGED << Later, target >>
    /\ IF UniqueOpenViolated(r, e) THEN Fail(r, "IntegrityError")
       ELSE /\ txEvent' = [txEvent EXCEPT ![r] =
                             NewEvent(e, args[r].comment, args[r].changed_at)]
            /\ pc' = [pc EXCEPT ![r] = "written"]
            /\ UNCHANGED << eqStatus, eqUpdatedAt, events, logs, now, txLog,
                            result, hist >>

\* line 121: select_for_update().filter(ended_at__isnull=True)
\*           .order_by("-started_at").first()
select_for_update(r) ==
    LET e == obj[r].eq IN
    /\ pc[r] = "logged"
    /\ txLog[r].to_status = UP
    /\ UNCHANGED Later
    /\ IF ~ HasOpenEvent(e)
       THEN Fail(r, "NoOpenEventToClose") /\ UNCHANGED target
       ELSE /\ target' = [target EXCEPT ![r] = FirstOpen(e)]
            /\ pc' = [pc EXCEPT ![r] =
                        IF LockedByOther(r, FirstOpen(e)) THEN "waiting"
                        ELSE "locked"]
            /\ UNCHANGED << eqStatus, eqUpdatedAt, events, logs, now, txLog,
                            txEvent, result, hist >>

\* the blocked SELECT ... FOR UPDATE once the row lock is released: the row
\* is read again and dropped when it no longer satisfies ended_at IS NULL
select_for_update_resume(r) ==
    /\ pc[r] = "waiting"
    /\ ~ LockedByOther(r, target[r])
    /\ UNCHANGED << Later, target >>
    /\ IF events[target[r]].ended_at # Null THEN Fail(r, "NoOpenEventToClose")
       ELSE /\ pc' = [pc EXCEPT ![r] = "locked"]
            /\ UNCHANGED << eqStatus, eqUpdatedAt, events, logs, now, txLog,
                            txEvent, result, hist >>

\* lines 124-129: set the end fields, full_clean(), save(update_fields=...)
close_open_event(r) ==
    LET ev == ClosedEvent(events[target[r]], args[r].comment, args[r].changed_at) IN
    /\ pc[r] = "locked"
    /\ UNCHANGED << Later, target >>
    /\ IF CleanFails(ev) THEN Fail(r, "EndNotAfterStart")
       ELSE /\ txEvent' = [txEvent EXCEPT ![r] = ev]
            /\ pc' = [pc EXCEPT ![r] = "written"]
            /\ UNCHANGED << eqStatus, eqUpdatedAt, events, logs, now, txLog,
                            result, hist >>

\* lines 132-136: self.save(update_fields=[...]); return log; the atomic
\* block exits and the transaction commits
save_and_commit(r) ==
    LET e == obj[r].eq IN
    /\ pc[r] = "written"
    /\ logs' = WrittenLogs(r)
    /\ events' = WrittenEvents(r)
    /\ eqStatus' = [eqStatus EXCEPT ![e] = args[r].new_status]
    /\ eqUpdatedAt' = [eqUpdatedAt EXCEPT ![e] = args[r].changed_at]
    /\ hist' = [hist EXCEPT ![e] = Append(@, args[r].new_status)]
    /\ pc' = [pc EXCEPT ![r] = "committed"]
    /\ result' = [result EXCEPT ![r] = "ok"]
    /\ interfered' = [q \in Requests |->
                        IF q # r /\ obj[q].eq = e /\ pc[q] \notin {"idle", "loaded"}
                        THEN TRUE ELSE interfered[q]]
    /\ txLog' = [txLog EXCEPT ![r] = NoRow]
    /\ txEvent' = [txEvent EXCEPT ![r] = NoRow]
    /\ UNCHANGED << now, obj, args, target, atCall, report,
                    equipment >>

\* forms.py EquipmentStatusForm.is_valid(): comment min_length 3 after the
\* CharField strip, downtime_category required when new_status is DOWN
FormValid(new_status, comment, cat) ==
    /\ Len(Strip(comment)) >= 3
    /\ (new_status = DOWN => cat # "")

WebComments == { <<"a">>, <<"f", "i", "x">> }

\* views.py change_status, POST: set_status is called with the keyword
\* downtime_category, which Equipment.set_status does not accept
change_status(r) ==
    \E s \in Status, c \in WebComments, cat \in FormCategories :
        /\ pc[r] = "loaded"
        /\ args' = [args EXCEPT ![r] = [new_status |-> s,
                                        comment |-> Strip(c), changed_at |-> now]]
        /\ atCall' = [atCall EXCEPT ![r] = Snapshot(obj[r].eq)]
        /\ interfered' = [interfered EXCEPT ![r] = FALSE]
        /\ UNCHANGED << obj, target, report,
                    equipment >>
        /\ IF FormValid(s, c, cat) THEN Fail(r, "TypeError")
           ELSE Fail(r, "FormInvalid")

\* time passes
Tick ==
    /\ now < MaxTime
    /\ now' = now + 1
    /\ UNCHANGED << eqStatus, eqUpdatedAt, events, logs, pc, obj, args, txLog,
                    txEvent, target, result, atCall, interfered, hist, report,
                    equipment >>

\* the statements of set_status after the log row, and the commit
Statements(r) ==
    \/ check_open_exists(r)
    \/ create_downtime_event(r)
    \/ select_for_update(r)
    \/ select_for_update_resume(r)
    \/ close_open_event(r)
    \/ save_and_commit(r)

\* Spec: two concurrent requests on one equipment, every caller, every
\* argument (raw status, raw comment, caller-supplied or default timestamp)
Next ==
    \/ \E r \in Requests, e \in SingleUnit : get_object(r, e)
    \/ \E r \in Requests : apply_transition(r)
    \/ \E r \in Requests : bulk_change_status(r)
    \/ \E r \in Requests : change_status(r)
    \/ \E r \in Requests : Statements(r)
    \/ Tick

Spec == Init /\ [][Next]_vars

\* SpecFleet: two concurrent requests over all equipment, made through the
\* admin actions and the web view (timestamps are the clock's)
NextFleet ==
    \/ \E r \in Requests, e \in EquipmentIds : get_object(r, e)
    \/ \E r \in Requests : bulk_change_status(r)
    \/ \E r \in Requests : change_status(r)
    \/ \E r \in Requests : Statements(r)
    \/ Tick

SpecFleet == Init /\ [][NextFleet]_vars

\* SpecFleetFair: two concurrent requests over all equipment that reach the
\* engine (the admin actions), under fair scheduling: a transaction whose
\* next statement can run goes on, and a statement that waits for a row lock
\* or for the unique index is served once the transaction in its way has
\* ended, however often other requests come for the same row
NextFleetFair ==
    \/ \E r \in Requests, e \in EquipmentIds : get_object(r, e)
    \/ \E r \in Requests : bulk_change_status(r)
    \/ \E r \in Requests : Statements(r)
    \/ Tick

SpecFleetFair ==
    /\ Init /\ [][NextFleetFair]_vars
    /\ \A r \in Requests : SF_vars(Statements(r))

TypeOK ==
    /\ eqStatus \in [EquipmentIds -> Status]
    /\ now \in 1..MaxTime
    /\ Len(logs) <= MaxLogs + 1

\* ---------------------------------------------------------------- reports
\* Timestamps are instants of the clock, TickSeconds apart.  Seconds are
\* integers; a quotient is kept as a fraction [num, den] until it is rounded;
\* days are held in thousandths (round(x, 3)) and percentages in hundredths
\* (round(x, 2)).
TickSeconds == 30
SecondsPerDay == 86400

\* Department.objects.filter(is_active=True).order_by("name"), and the
\* department of each equipment
Departments == << "QC", "UTIL" >>
DepartmentOf == [e \in EquipmentIds |-> "QC"]

\* Equipment.objects.filter(is_active=True, ...): Meta.ordering
EquipmentList == << 1, 2 >>

\* request.GET "cat" values, and cat_filter = None
CatInputs == {"", "planned"}
NoFilter == "ALL"

Max(a, b) == IF a >= b THEN a ELSE b
Min(a, b) == IF a <= b THEN a ELSE b

RECURSIVE SumOver(_, _)
SumOver(S, f) ==
    IF S = {} THEN 0
    ELSE LET x == CHOOSE y \in S : TRUE IN f[x] + SumOver(S \ {x}, f)

\* (b - a).total_seconds()
total_seconds(a, b) == (b - a) * TickSeconds

\* round(n / d) for n >= 0, d > 0: to nearest, ties to even
RoundHalfEven(n, d) ==
    LET q == n \div d
        r == n % d
    IN IF 2 * r < d THEN q
       ELSE IF 2 * r > d THEN q + 1
       ELSE IF q % 2 = 0 THEN q ELSE q + 1

Zero == [num |-> 0, den |-> 1]
Whole(n) == [num |-> n, den |-> 1]

\* round(x / 86400.0, 3) of a number of seconds x, in thousandths of a day
round_days(x) == RoundHalfEven(x.num * 1000, x.den * SecondsPerDay)

\* round(x * 100.0, 2) of a ratio x, in hundredths of a percent
round_pct(x) == RoundHalfEven(x.num * 10000, x.den)

\* _year_window_from_request: the windows a report is asked for, ending no
\* later than the given instant
Windows(last) == { w \in (0..last) \X (0..last) : w[1] < w[2] }

\* an open event counted as if it had ended when it started
overlap_seconds_open_as_empty(event, window_start, window_end, now_ts) ==
    LET overlap_start == Max(event.started_at, window_start)
        overlap_end == Min(IF event.ended_at # Null THEN event.ended_at
                           ELSE event.started_at, window_end)
    IN IF overlap_end > overlap_start
       THEN total_seconds(overlap_start, overlap_end) ELSE 0

\* an overlap not clipped to the end of the window
overlap_seconds_unclipped(event, window_start, window_end, now_ts) ==
    LET overlap_start == Max(event.started_at, window_start)
        overlap_end == IF event.ended_at # Null THEN event.ended_at ELSE now_ts
    IN IF overlap_end > overlap_start
       THEN total_seconds(overlap_start, overlap_end) ELSE 0

\* _overlap_seconds
overlap_seconds(event, window_start, window_end, now_ts) ==
    LET overlap_start == Max(event.started_at, window_start)
        overlap_end == Min(IF event.ended_at # Null THEN event.ended_at
                           ELSE now_ts, window_end)
    IN IF overlap_end > overlap_start
       THEN total_seconds(overlap_start, overlap_end) ELSE 0

\* _cat_from_request: (request.GET.get("cat") or "ALL").upper().strip(),
\* kept as the filter when it is a valid choice key, else no filter (Null)
cat_from_request(raw) ==
    LET cat == CASE raw = "" -> "ALL"
                 [] raw = "planned" -> "PLANNED"
                 [] OTHER -> raw
    IN IF cat \in Categories THEN cat ELSE NoFilter

\* _safe_div
safe_div(n, d, default) == IF d = 0 THEN default ELSE [num |-> n, den |-> d]

\* the window taken as elapsed in full, whatever the time is
window_seconds_whole(year_start, year_end, now_ts) ==
    IF year_end <= year_start THEN 0 ELSE total_seconds(year_start, year_end)

\* _window_seconds
window_seconds(year_start, year_end, now_ts) ==
    LET end == Min(year_end, now_ts)
        start == year_start
    IN IF end <= start THEN 0 ELSE total_seconds(start, end)

\* a prefilter that drops the events still open
events_closed_in_window(base_qs, year_start, year_end) ==
    { k \in base_qs :
        /\ events[k].started_at < year_end
        /\ events[k].ended_at # Null
        /\ events[k].ended_at > year_start }

\* _events_overlapping_window: started_at < year_end and
\* (ended_at IS NULL or ended_at > year_start)
events_overlapping_window(base_qs, year_start, year_end) ==
    { k \in base_qs :
        /\ events[k].started_at < year_end
        /\ (events[k].ended_at = Null \/ events[k].ended_at > year_start) }

\* if cat_filter: qs = qs.filter(category=cat_filter)
filter_category(qs, cat_filter) ==
    IF cat_filter = NoFilter THEN qs
    ELSE { k \in qs : events[k].category = cat_filter }

\* the overlap of every event of the store with the window
Overlaps(year_start, year_end, now_ts) ==
    [k \in EventIds |-> overlap_seconds(events[k], year_start, year_end, now_ts)]

\* uptime as window minus downtime, with no floor at zero
uptime_unclamped(win_sec, downtime_sec) == win_sec - downtime_sec

\* max(0.0, win_sec - downtime_sec)
uptime_seconds(win_sec, downtime_sec) == Max(0, win_sec - downtime_sec)

\* _mtbf_mttr_for_equipment over the events (a set of rows) handed to it:
\* (mtbf_days, mttr_days, downtime_days, event_count)
mtbf_mttr_for_equipment(evs, year_start, year_end, now_ts) ==
    LET win_sec == window_seconds(year_start, year_end, now_ts)
        downtime_sec == SumOver(evs, Overlaps(year_start, year_end, now_ts))
        event_count == Cardinality(evs)
        uptime_sec == uptime_seconds(win_sec, downtime_sec)
        mttr == safe_div(downtime_sec, event_count, Zero)
        mtbf == safe_div(uptime_sec, event_count, Zero)
    IN IF win_sec <= 0
       THEN [mtbf_days |-> 0, mttr_days |-> 0, downtime_days |-> 0,
             event_count |-> 0]
       ELSE [mtbf_days |-> round_days(mtbf), mttr_days |-> round_days(mttr),
             downtime_days |-> round_days(Whole(downtime_sec)),
             event_count |-> event_count]

\* list.sort(key=downtime_days, reverse=True): stable, largest first
RECURSIVE SortedDesc(_)
SortedDesc(items) ==
    IF items = <<>> THEN <<>>
    ELSE LET rest == SortedDesc(SubSeq(items, 1, Len(items) - 1))
             x == items[Len(items)]
             ahead == SelectSeq(rest, LAMBDA y : y.downtime_days >= x.downtime_days)
             behind == SelectSeq(rest, LAMBDA y : y.downtime_days < x.downtime_days)
         IN ahead \o << x >> \o behind

RECURSIVE SumSeq(_, _)
SumSeq(vals, n) == IF n = 0 THEN 0 ELSE vals[n] + SumSeq(vals, n - 1)

top_n == 10

\* availability with no floor at zero
availability_unclamped(win_sec, downtime_sec) ==
    IF win_sec > 0 THEN [num |-> win_sec - downtime_sec, den |-> win_sec]
    ELSE Zero

\* availability = 0.0; if win_sec > 0:
\*     availability = max(0.0, 1.0 - (total_downtime_sec / win_sec))
availability_ratio(win_sec, downtime_sec) ==
    IF win_sec > 0
    THEN [num |-> Max(0, win_sec - downtime_sec), den |-> win_sec]
    ELSE Zero

\* what plant_dashboard computes for its template
\* from the equipment it read at line 477 (equipment_qs, cached by the
\* queryset) and the events as they are when line 480 reads them; the two
\* dicts get a key for every equipment read and, through .get(), for the
\* equipment of every event read
plant_context(equipment_qs, year_start, year_end, raw_cat, now_ts) ==
    LET cat_filter == cat_from_request(raw_cat)
        events_qs == filter_category(
            events_overlapping_window(EventIds, year_start, year_end), cat_filter)
        overlap == Overlaps(year_start, year_end, now_ts)
        keys == equipment_qs \cup { events[k].eq : k \in events_qs }
        downtime_seconds_by_eq ==
            [e \in keys |->
                SumOver({ k \in events_qs : events[k].eq = e }, overlap)]
        event_count_by_eq ==
            [e \in keys |->
                Cardinality({ k \in events_qs : events[k].eq = e })]
        total_downtime_sec == SumOver(keys, downtime_seconds_by_eq)
        win_sec == window_seconds(year_start, year_end, now_ts)
        availability == availability_ratio(win_sec, total_downtime_sec)
        total_event_count == SumOver(keys, event_count_by_eq)
        dept_rows ==
            [i \in 1..Len(Departments) |->
                LET members == { e \in equipment_qs :
                                    DepartmentOf[e] = Departments[i] }
                IN [code |-> Departments[i],
                    downtime_days |-> round_days(Whole(
                        SumOver(members, downtime_seconds_by_eq))),
                    event_count |-> SumOver(members, event_count_by_eq)]]
        with_downtime ==
            SelectSeq(EquipmentList, LAMBDA e :
                e \in equipment_qs /\ ~ (downtime_seconds_by_eq[e] <= 0))
        pareto_items ==
            SortedDesc([i \in 1..Len(with_downtime) |->
                [equipment_id |-> with_downtime[i],
                 department |-> DepartmentOf[with_downtime[i]],
                 downtime_days |->
                    round_days(Whole(downtime_seconds_by_eq[with_downtime[i]])),
                 event_count |-> event_count_by_eq[with_downtime[i]]]])
        pareto_top == SubSeq(pareto_items, 1, Min(top_n, Len(pareto_items)))
        pareto_values == [i \in 1..Len(pareto_top) |-> pareto_top[i].downtime_days]
        total_all ==
            SumSeq([i \in 1..Len(pareto_items) |-> pareto_items[i].downtime_days],
                   Len(pareto_items))
        denom == IF total_all > 0 THEN total_all ELSE 1000
    IN [view |-> "plant",
        year_start |-> year_start, year_end |-> year_end,
        cat_filter |-> cat_filter, now_ts |-> now_ts,
        equipment_qs |-> equipment_qs,
        events_qs |-> events_qs,
        total_downtime_sec |-> total_downtime_sec,
        dept_seconds |-> [i \in 1..Len(Departments) |->
            SumOver({ e \in equipment_qs : DepartmentOf[e] = Departments[i] },
                    downtime_seconds_by_eq)],
        downtime_seconds_by_eq |-> downtime_seconds_by_eq,
        event_count_by_eq |-> event_count_by_eq,
        win_sec |-> win_sec,
        availability |-> availability,
        total_downtime_days |-> round_days(Whole(total_downtime_sec)),
        availability_pct |-> round_pct(availability),
        overall_mttr_days |->
            round_days(safe_div(total_downtime_sec, total_event_count, Zero)),
        overall_mtbf_days |->
            round_days(safe_div(uptime_seconds(win_sec, total_downtime_sec),
                                total_event_count, Zero)),
        total_event_count |-> total_event_count,
        dept_rows |-> SortedDesc(dept_rows),
        pareto_items |-> pareto_items,
        pareto_values |-> pareto_values,
        pareto_cum_pct |->
            [i \in 1..Len(pareto_top) |->
                round_pct([num |-> SumSeq(pareto_values, i), den |-> denom])]]

\* what equipment_detail computes for the selected window
equipment_context(pk, year_start, year_end, raw_cat, now_ts) ==
    LET cat_filter == cat_from_request(raw_cat)
        events_year == filter_category(
            events_overlapping_window(EventsOf(pk), year_start, year_end),
            cat_filter)
        total_seconds_year ==
            SumOver(events_year, Overlaps(year_start, year_end, now_ts))
    IN [view |-> "equipment", pk |-> pk,
        year_start |-> year_start, year_end |-> year_end,
        cat_filter |-> cat_filter, now_ts |-> now_ts,
        events_year |-> events_year,
        overlaps |-> [k \in events_year |->
            overlap_seconds(events[k], year_start, year_end, now_ts)],
        total_seconds_year |-> total_seconds_year,
        total_days_year |-> round_days(Whole(total_seconds_year))]

\* the variables a reporting view leaves alone
Stored == << eqStatus, eqUpdatedAt, events, logs, now, pc, obj, args, txLog,
             txEvent, target, result, atCall, interfered, hist, equipment >>

\* the clock of the reporting runs goes on past the last transition
Horizon == MaxTime + 1

\* views.py plant_dashboard: now_ts = timezone.now() is read by the view
plant_dashboard ==
    \E w \in Windows(Horizon + 1), raw_cat \in CatInputs :
        /\ report = NoReport
        /\ report' = plant_context(equipment, w[1], w[2], raw_cat, now)
        /\ UNCHANGED Stored

\* views.py equipment_detail
equipment_detail(pk) ==
    \E w \in Windows(Horizon + 1), raw_cat \in CatInputs :
        /\ report = NoReport
        /\ report' = equipment_context(pk, w[1], w[2], raw_cat, now)
        /\ UNCHANGED Stored

\* the per-equipment figures: _mtbf_mttr_for_equipment applied to the events
\* of one equipment that overlap the window
equipment_kpis(pk) ==
    \E w \in Windows(Horizon + 1) :
        LET evs == events_overlapping_window(EventsOf(pk), w[1], w[2]) IN
        /\ report = NoReport
        /\ report' = [view |-> "kpis", pk |-> pk,
                      year_start |-> w[1], year_end |-> w[2], now_ts |-> now,
                      events_year |-> evs,
                      kpis |-> mtbf_mttr_for_equipment(evs, w[1], w[2], now)]
        /\ UNCHANGED Stored

\* time passes, up to the horizon of the reporting runs
Elapse ==
    /\ report = NoReport
    /\ now < Horizon
    /\ now' = now + 1
    /\ UNCHANGED << eqStatus, eqUpdatedAt, events, logs, pc, obj, args, txLog,
                    txEvent, target, result, atCall, interfered, hist, report,
                    equipment >>

\* the request slot that builds the history of the reporting runs
Clerk == "r1"

\* a caller of set_status that passes a valid status, a comment and, when it
\* chooses to, the timestamp of the change
stamped_transition(r) ==
    \E s \in Status, t \in 0..MaxTime : set_status_begin(r, s, AdminComment, t)

\* SpecReport: one caller at a time builds a history on the fleet, with
\* timestamps of its choice or the clock's; a reporting view is then run on the store as it stands,
\* and the run ends with what the view computed
NextReport ==
    \/ report = NoReport /\ \E e \in EquipmentIds : get_object(Clerk, e)
    \/ report = NoReport /\ stamped_transition(Clerk)
    \/ report = NoReport /\ check_open_exists(Clerk)
    \/ report = NoReport /\ create_downtime_event(Clerk)
    \/ report = NoReport /\ select_for_update(Clerk)
    \/ report = NoReport /\ close_open_event(Clerk)
    \/ report = NoReport /\ save_and_commit(Clerk)
    \/ Elapse
    \/ plant_dashboard
    \/ \E pk \in EquipmentIds : equipment_detail(pk)
    \/ \E pk \in EquipmentIds : equipment_kpis(pk)

SpecReport == Init /\ [][NextReport]_vars

\* ------------------------------------------------------------ admin forms
\* the request slot of the admin's Equipment change form
Editor == "r2"

\* the variables the admin forms of Equipment leave alone
BesideEquipment == << events, logs, now, args, txLog, txEvent, target, atCall,
                      interfered, hist, report >>

\* admin.py EquipmentAdmin, add form: status is a field of the form and
\* save_model with change = False saves the object as the form built it;
\* status_updated_at takes its default, timezone.now
save_model_add(e, status) ==
    /\ e \notin equipment
    /\ equipment' = equipment \cup {e}
    /\ eqStatus' = [eqStatus EXCEPT ![e] = status]
    /\ eqUpdatedAt' = [eqUpdatedAt EXCEPT ![e] = now]
    /\ UNCHANGED << BesideEquipment, pc, obj, result >>

\* admin.py EquipmentAdmin, change form: the view loads the object
change_view_get_object(r, e) ==
    /\ pc[r] = "idle"
    /\ e \in equipment
    /\ pc' = [pc EXCEPT ![r] = "form_loaded"]
    /\ obj' = [obj EXCEPT ![r] = [eq |-> e, status |-> eqStatus[e],
                                  status_updated_at |-> eqUpdatedAt[e]]]
    /\ UNCHANGED << BesideEquipment, eqStatus, eqUpdatedAt, equipment, result >>

\* save_model lines 88-96, change = True: the form has put the submitted
\* status on the object; old is read, and a status that differs from
\* old.status is set back to it
save_model_revert(r, status) ==
    LET old == [status |-> eqStatus[obj[r].eq]]
        submitted == [obj[r] EXCEPT !.status = status]
    IN
    /\ pc[r] = "form_loaded"
    /\ pc' = [pc EXCEPT ![r] = "form_checked"]
    /\ obj' = [obj EXCEPT ![r] =
                  IF old.status # submitted.status
                  THEN [submitted EXCEPT !.status = old.status]
                  ELSE submitted]
    /\ result' = [result EXCEPT ![r] =
                     IF old.status # submitted.status THEN "reverted" ELSE "none"]
    /\ UNCHANGED << BesideEquipment, eqStatus, eqUpdatedAt, equipment >>

\* save_model line 97: super().save_model() is obj.save(), an UPDATE of every
\* column with the values of the object
save_model_save(r) ==
    /\ pc[r] = "form_checked"
    /\ eqStatus' = [eqStatus EXCEPT ![obj[r].eq] = obj[r].status]
    /\ eqUpdatedAt' = [eqUpdatedAt EXCEPT ![obj[r].eq] = obj[r].status_updated_at]
    /\ pc' = [pc EXCEPT ![r] = "idle"]
    /\ obj' = [obj EXCEPT ![r] = NoObj]
    /\ result' = [result EXCEPT ![r] = "none"]
    /\ UNCHANGED << BesideEquipment, equipment >>

\* admin.py DowntimeEventAdmin (lines 131-162) and DowntimeEventInline (18-35),
\* change form: started_at and ended_at are fields of the form; the form runs
\* full_clean (clean and the constraints of the model) and saves the row
DowntimeEventAdmin_change(k, started_at, ended_at) ==
    LET row == [events[k] EXCEPT !.started_at = started_at,
                                 !.ended_at = ended_at]
    IN
    /\ k \in EventIds
    /\ row # events[k]
    /\ ~ CleanFails(row)
    /\ row.ended_at = Null => OpenEvents(row.eq) \subseteq {k}
    /\ \A q \in Requests : ~ Holds(q, k) /\ txEvent[q].eq # row.eq
    /\ events' = [events EXCEPT ![k] = row]
    /\ UNCHANGED << eqStatus, eqUpdatedAt, logs, now, pc, obj, args, txLog,
                    txEvent, target, result, atCall, interfered, hist, report,
                    equipment >>

\* the window of the dashboard in the runs with the admin forms
WholeWindow == << 0, Horizon >>

\* views.py plant_dashboard up to line 478: the first iteration over
\* equipment_qs reads the Equipment rows, which the queryset then keeps
plant_dashboard_equipment ==
    /\ report = NoReport
    /\ report' = [view |-> "plant_equipment", equipment_qs |-> equipment,
                  now_ts |-> now]
    /\ UNCHANGED Stored

\* views.py plant_dashboard from line 480: the events are read and the
\* context is computed
plant_dashboard_events ==
    /\ report.view = "plant_equipment"
    /\ report' = plant_context(report.equipment_qs, WholeWindow[1],
                               WholeWindow[2], "", report.now_ts)
    /\ UNCHANGED Stored

\* the fleet is registered one equipment at a time
InitAdmin == InitWith(SingleUnit)

\* SpecAdmin: a caller of the admin actions makes transitions on the first
\* equipment while the admin forms add equipment and edit equipment and
\* events
NextAdmin ==
    \/ \E e \in SingleUnit : get_object(Clerk, e)
    \/ bulk_change_status(Clerk)
    \/ check_open_exists(Clerk)
    \/ create_downtime_event(Clerk)
    \/ select_for_update(Clerk)
    \/ close_open_event(Clerk)
    \/ save_and_commit(Clerk)
    \/ Tick
    \/ \E e \in EquipmentIds, s \in Status : save_model_add(e, s)
    \/ \E e \in EquipmentIds : change_view_get_object(Editor, e)
    \/ \E s \in Status : save_model_revert(Editor, s)
    \/ save_model_save(Editor)
    \/ \E k \in EventIds, t \in 1..MaxTime, u \in 0..MaxTime :
          DowntimeEventAdmin_change(k, t, u)

SpecAdmin == InitAdmin /\ [][NextAdmin]_vars

\* SpecDashboard: a caller of the admin actions makes transitions on the
\* equipment there is, the add form registers equipment, and the dashboard
\* is computed once, in its two reads
NextDashboard ==
    \/ report.view # "plant" /\ \E e \in equipment : get_object(Clerk, e)
    \/ report.view # "plant" /\ bulk_change_status(Clerk)
    \/ report.view # "plant" /\ check_open_exists(Clerk)
    \/ report.view # "plant" /\ create_downtime_event(Clerk)
    \/ report.view # "plant" /\ select_for_update(Clerk)
    \/ report.view # "plant" /\ close_open_event(Clerk)
    \/ report.view # "plant" /\ save_and_commit(Clerk)
    \/ report.view # "plant" /\ Tick
    \/ report.view # "plant" /\ \E e \in EquipmentIds, s \in Status : save_model_add(e, s)
    \/ plant_dashboard_equipment
    \/ plant_dashboard_events

SpecDashboard == InitAdmin /\ [][NextDashboard]_vars

\* ------------------------------------------------------------------ claims
Finished(r) == pc[r] \in {"failed", "committed"}

\* the request ran the body of set_status with a usable status and comment
Entered(r) ==
    /\ Finished(r)
    /\ result[r] \notin {"TypeError", "FormInvalid", "InvalidStatus",
                         "MissingComment"}

\* nothing of the equipment was written since set_status began
Untouched(r) ==
    LET e == obj[r].eq IN
    /\ Cardinality(LogsOf(e)) = atCall[r].nlogs
    /\ Cardinality(EventsOf(e)) = atCall[r].nevents
    /\ eqStatus[e] = atCall[r].status
    /\ HasOpenEvent(e) = atCall[r].open

\* C1: in every committed state each equipment has at most one open
\* DowntimeEvent, and it has exactly one iff its status is DOWN.
C1_OpenEventIffDown ==
    \A e \in EquipmentIds :
        /\ Cardinality(OpenEvents(e)) <= 1
        /\ (Cardinality(OpenEvents(e)) = 1) <=> (eqStatus[e] = DOWN)

\* an equipment is DOWN again after an earlier downtime was closed
C1_Witness ==
    \E e \in EquipmentIds :
        /\ eqStatus[e] = DOWN
        /\ Cardinality(OpenEvents(e)) = 1
        /\ Cardinality(EventsOf(e)) = 2

\* C2: a set_status call that fails, at whatever statement, leaves the
\* committed rows exactly as they were; the committed rows change only when
\* a transaction commits, and then the log row, its event and the equipment
\* row appear together.
C2_FailureIsAtomic ==
    [][ /\ (\E r \in Requests : pc[r] # "failed" /\ pc'[r] = "failed")
            => store' = store
        /\ store' # store =>
            \E r \in Requests :
                LET e == obj[r].eq
                    lid == Len(logs')
                IN
                /\ pc[r] = "written" /\ pc'[r] = "committed"
                /\ lid = Len(logs) + 1
                /\ logs'[lid].eq = e
                /\ eqStatus'[e] = logs'[lid].to_status
                /\ eqUpdatedAt'[e] = logs'[lid].changed_at
                /\ \E k \in 1..Len(events') :
                      /\ events'[k].eq = e
                      /\ IF logs'[lid].to_status = DOWN
                         THEN events'[k].started_by_log = lid
                         ELSE events'[k].ended_by_log = lid
      ]_vars

\* a call has failed after its log row was created inside the transaction
C2_Witness ==
    \E r \in Requests :
        /\ pc[r] = "failed"
        /\ result[r] \in {"DuplicateOpenEvent", "NoOpenEventToClose",
                          "EndNotAfterStart", "IntegrityError"}

\* both requests asked for UP, selected the same open event for update and
\* carry an end time after its start
RacedUp(r1, r2) ==
    /\ r1 # r2
    /\ Entered(r1) /\ Entered(r2)
    /\ args[r1].new_status = UP /\ args[r2].new_status = UP
    /\ target[r1] # Null /\ target[r1] = target[r2]
    /\ args[r1].changed_at > events[target[r1]].started_at
    /\ args[r2].changed_at > events[target[r1]].started_at

\* C3: of two UP transitions racing on one open event exactly one commits,
\* the other fails with NoOpenEventToClose (or a store error), the event is
\* closed once with the winner's end fields, and one UP log row is committed.
C3_RacingUps ==
    \A r1, r2 \in Requests :
        RacedUp(r1, r2) =>
            LET k == target[r1]
                e == events[k].eq
                w == IF pc[r1] = "committed" THEN r1 ELSE r2
                l == IF pc[r1] = "committed" THEN r2 ELSE r1
                ups == { i \in LogsOf(e) :
                            /\ logs[i].to_status = UP
                            /\ i > events[k].started_by_log }
            IN
            /\ (pc[r1] = "committed") # (pc[r2] = "committed")
            /\ result[l] \in {"NoOpenEventToClose", "IntegrityError"}
            /\ events[k].ended_at = args[w].changed_at
            /\ events[k].end_comment = args[w].comment
            /\ ups = { events[k].ended_by_log }
            /\ Cardinality({ j \in EventsOf(e) : events[j].ended_at # Null
                                /\ j >= k }) = 1

C3_Witness == \E r1, r2 \in Requests : RacedUp(r1, r2)

\* both requests asked for DOWN on the same equipment while it was UP with
\* no open event, each holding a fresh object, and nothing but their own
\* transitions was committed since
RacedDown(r1, r2) ==
    /\ r1 # r2
    /\ Entered(r1) /\ Entered(r2)
    /\ obj[r1].eq = obj[r2].eq
    /\ args[r1].new_status = DOWN /\ args[r2].new_status = DOWN
    /\ obj[r1].status = UP /\ obj[r2].status = UP
    /\ atCall[r1] = atCall[r2]
    /\ ~ atCall[r1].open

\* C4: of two DOWN transitions racing on an equipment that is UP with no
\* open event at most one commits, also when both passed the existence
\* check before either inserted; the loser fails with DuplicateOpenEvent or a
\* store error and commits nothing; no equipment ever has two open events.
C4_RacingDowns ==
    /\ \A e \in EquipmentIds : Cardinality(OpenEvents(e)) <= 1
    /\ \A r1, r2 \in Requests :
          RacedDown(r1, r2) =>
              LET e == obj[r1].eq IN
              /\ ~ (pc[r1] = "committed" /\ pc[r2] = "committed")
              /\ \A r \in {r1, r2} :
                    pc[r] = "failed" =>
                        result[r] \in {"DuplicateOpenEvent", "IntegrityError"}
              /\ Cardinality(LogsOf(e)) = atCall[r1].nlogs + 1
              /\ Cardinality(EventsOf(e)) = atCall[r1].nevents + 1

\* the loser passed the existence check and was stopped by the unique index
C4_Witness ==
    \E r1, r2 \in Requests :
        /\ RacedDown(r1, r2)
        /\ pc[r1] = "committed"
        /\ result[r2] = "IntegrityError"

\* C5: from UP with no events, a transition to DOWN followed by one to UP
\* leaves exactly one DowntimeEvent, closed with ended_at > started_at, and
\* exactly two log rows, UP->DOWN then DOWN->UP, with the equipment UP.
C5_DownThenUp ==
    \A e \in EquipmentIds :
        hist[e] = << DOWN, UP >> =>
            /\ eqStatus[e] = UP
            /\ Cardinality(EventsOf(e)) = 1
            /\ Cardinality(LogsOf(e)) = 2
            /\ \A k \in EventsOf(e) :
                  /\ events[k].ended_at # Null
                  /\ events[k].ended_at > events[k].started_at
                  /\ events[k].started_by_log < events[k].ended_by_log
                  /\ LogsOf(e) = { events[k].started_by_log,
                                   events[k].ended_by_log }
                  /\ logs[events[k].started_by_log].from_status = UP
                  /\ logs[events[k].started_by_log].to_status = DOWN
                  /\ logs[events[k].ended_by_log].from_status = DOWN
                  /\ logs[events[k].ended_by_log].to_status = UP

C5_Witness == \E e \in EquipmentIds : hist[e] = << DOWN, UP >>

\* an otherwise valid request for new_status ran to its end on an equipment
\* whose committed status when set_status began was st, and no other
\* transition on that equipment has committed since set_status began
RanAgainst(r, new_status, st) ==
    /\ Entered(r)
    /\ args[r].new_status = new_status
    /\ atCall[r].status = st
    /\ ~ interfered[r]

\* C6 as stated: a second DOWN on an equipment that is already DOWN fails
\* with DuplicateOpenEvent and creates no log row and no event.
C6_Original ==
    \A r \in Requests :
        RanAgainst(r, DOWN, DOWN) =>
            /\ pc[r] = "failed"
            /\ result[r] = "DuplicateOpenEvent"
            /\ Untouched(r)

\* C6 amended: a second DOWN on an equipment that is already DOWN fails and
\* creates no log row and no event; the error is NoOpTransition when the
\* Equipment object the call runs on reads DOWN, and DuplicateOpenEvent when
\* that object still reads UP.
C6_SecondDownFails ==
    \A r \in Requests :
        RanAgainst(r, DOWN, DOWN) =>
            /\ pc[r] = "failed"
            /\ result[r] \in {"NoOpTransition", "DuplicateOpenEvent"}
            /\ (result[r] = "NoOpTransition") <=> (obj[r].status = DOWN)
            /\ Untouched(r)

\* both error kinds have been produced by a DOWN on a DOWN equipment
C6_Witness ==
    /\ \E r \in Requests :
          RanAgainst(r, DOWN, DOWN) /\ result[r] = "NoOpTransition"
    /\ \E r \in Requests :
          RanAgainst(r, DOWN, DOWN) /\ result[r] = "DuplicateOpenEvent"

\* C7: validity is decided against the status committed when the transition
\* runs: a request whose new_status differs from it is never rejected as a
\* no-op, and a request whose new_status equals it is never accepted.
C7_DecidesOnCommittedStatus ==
    \A r \in Requests :
        Entered(r) =>
            /\ result[r] = "NoOpTransition"
                  => args[r].new_status = atCall[r].status
            /\ (pc[r] = "committed" /\ ~ interfered[r])
                  => args[r].new_status # atCall[r].status

\* C8: a request whose new_status equals the equipment's current status
\* fails with NoOpTransition and creates no log row and no event.
C8_NoOpRejected ==
    \A r \in Requests, st \in Status :
        RanAgainst(r, st, st) =>
            /\ pc[r] = "failed"
            /\ result[r] = "NoOpTransition"
            /\ Untouched(r)

\* an otherwise valid UP request ran to its end on an equipment that had no
\* open event when set_status began, undisturbed by other transitions
UpWithoutOpenEvent(r) ==
    /\ Entered(r)
    /\ args[r].new_status = UP
    /\ ~ atCall[r].open
    /\ ~ interfered[r]

\* C9 as stated: UP on an equipment with no open event fails with
\* NoOpenEventToClose and changes nothing.
C9_Original ==
    \A r \in Requests :
        UpWithoutOpenEvent(r) =>
            /\ pc[r] = "failed"
            /\ result[r] = "NoOpenEventToClose"
            /\ Untouched(r)

\* C9 amended: UP on an equipment with no open event fails and changes
\* nothing; the error is NoOpTransition when the Equipment object the call
\* runs on reads UP, and NoOpenEventToClose when that object still reads DOWN.
C9_UpWithoutOpenEventFails ==
    \A r \in Requests :
        UpWithoutOpenEvent(r) =>
            /\ pc[r] = "failed"
            /\ result[r] \in {"NoOpTransition", "NoOpenEventToClose"}
            /\ (result[r] = "NoOpTransition") <=> (obj[r].status = UP)
            /\ Untouched(r)

\* an UP without an open event got past the no-op check on an object that
\* still read DOWN and was refused for want of an open event
C9_Witness ==
    \E r \in Requests :
        /\ UpWithoutOpenEvent(r)
        /\ obj[r].status = DOWN
        /\ result[r] = "NoOpenEventToClose"

\* C10: a DOWN transition without a category is refused, so every
\* DowntimeEvent carries a category in {PLANNED, UNPLANNED}.
C10_EveryEventHasCategory ==
    /\ \A k \in EventIds : events[k].category \in Categories
    /\ \A r \in Requests :
          (Entered(r) /\ args[r].new_status = DOWN) => pc[r] = "failed"

\* a string of whitespace only (the empty string included)
Blank(c) == \A i \in 1..Len(c) : c[i] = " "

\* the request called set_status itself with a comment that is empty once
\* trimmed, and ran to its end
CalledWithBlankComment(r) ==
    /\ Finished(r)
    /\ result[r] \notin {"TypeError", "FormInvalid"}
    /\ Blank(args[r].comment)

\* C11: a transition whose comment is empty after trimming fails with
\* MissingComment (its new_status being valid; an invalid one is reported
\* first) before anything is written, so every StatusChangeLog row, committed
\* or still inside a transaction, carries a non-empty trimmed comment.
C11_CommentMandatory ==
    /\ \A i \in 1..Len(logs) :
          LET c == logs[i].comment IN
          ~ Blank(c) /\ c[1] # " " /\ c[Len(c)] # " "
    /\ \A r \in Requests :
          txLog[r] # NoRow => ~ Blank(txLog[r].comment)
    /\ \A r \in Requests :
          CalledWithBlankComment(r) =>
              /\ pc[r] = "failed"
              /\ result[r] = IF args[r].new_status \in Status
                             THEN "MissingComment" ELSE "InvalidStatus"
              /\ ~ interfered[r] => Untouched(r)

\* a blank comment was refused on an equipment that already has log rows,
\* one of them with a comment that needed trimming
C11_Witness ==
    \E r \in Requests :
        /\ CalledWithBlankComment(r)
        /\ result[r] = "MissingComment"
        /\ atCall[r].nlogs > 0
        /\ \E i \in 1..Len(logs) : logs[i].comment = << "a" >>

\* the open event an UP request of r was about: the one it selected, or the
\* equipment's open event when the call ended before selecting
EventToClose(r) ==
    IF target[r] # Null THEN target[r] ELSE FirstOpen(obj[r].eq)

\* an UP request ran to its end on an equipment that had an open event when
\* set_status began, with a timestamp not after that event's start, and no
\* other transition on the equipment committed meanwhile
LateUp(r) ==
    /\ Entered(r)
    /\ args[r].new_status = UP
    /\ atCall[r].open
    /\ ~ interfered[r]
    /\ args[r].changed_at <= events[EventToClose(r)].started_at

\* C12: every closed DowntimeEvent, committed or written inside a
\* transaction, has ended_at > started_at; an UP whose timestamp is less than
\* or equal to the open event's started_at is rejected and leaves the event
\* open, the equipment DOWN and no log row committed.
C12_EndAfterStart ==
    /\ \A k \in EventIds :
          events[k].ended_at # Null => events[k].ended_at > events[k].started_at
    /\ \A r \in Requests :
          (txEvent[r] # NoRow /\ txEvent[r].ended_at # Null)
              => txEvent[r].ended_at > txEvent[r].started_at
    /\ \A r \in Requests :
          LateUp(r) =>
              /\ pc[r] = "failed"
              /\ events[EventToClose(r)].ended_at = Null
              /\ eqStatus[obj[r].eq] = DOWN
              /\ Untouched(r)

\* an UP stamped with the very instant the open event started was refused
\* by the event's validation
C12_Witness ==
    \E r \in Requests :
        /\ LateUp(r)
        /\ result[r] = "EndNotAfterStart"
        /\ args[r].changed_at = events[target[r]].started_at

\* C13: the committed StatusChangeLog rows of an equipment are strictly
\* ordered by changed_at in the order their transitions committed, under any
\* interleaving and any caller-supplied timestamp.
C13_LogsOrderedByChangedAt ==
    \A e \in EquipmentIds :
        \A i, j \in LogsOf(e) :
            i < j => logs[i].changed_at < logs[j].changed_at

\* ------------------------------------------------------- claims on reports
\* the overlap as the specification words it, in seconds
SpecOverlap(ev, window_start, window_end, now_ts) ==
    LET effective_end == Min(IF ev.ended_at # Null THEN ev.ended_at ELSE now_ts,
                             window_end)
        effective_start == Max(ev.started_at, window_start)
    IN Max(0, effective_end - effective_start) * TickSeconds

\* DOWN 2023-12-30, UP 2024-01-02, window 2024, in clock instants counted
\* from 2023-12-29: one day is SecondsPerDay \div TickSeconds instants
DayTicks == SecondsPerDay \div TickSeconds
C14_Example ==
    round_days(Whole(overlap_seconds(
        [started_at |-> 1 * DayTicks, ended_at |-> 4 * DayTicks],
        3 * DayTicks, (3 + 366) * DayTicks, 5 * DayTicks))) = 1000

\* C14: for every event, window and now, overlap_seconds is
\* max(0, min(ended_at or now, window_end) - max(started_at, window_start)),
\* never negative and never more than the window; an open event that
\* started before the window, with now inside it, yields now - window_start;
\* DOWN 2023-12-30 to UP 2024-01-02 against the year 2024 yields 1.0 day.
C14_OverlapSeconds ==
    /\ C14_Example
    /\ report.view = "equipment" =>
          LET ws == report.year_start
              we == report.year_end
              n == report.now_ts
          IN
          /\ \A k \in report.events_year :
                report.overlaps[k] = SpecOverlap(events[k], ws, we, n)
          /\ \A k \in EventIds :
                LET o == overlap_seconds(events[k], ws, we, n) IN
                /\ o = SpecOverlap(events[k], ws, we, n)
                /\ o >= 0
                /\ o <= (we - ws) * TickSeconds
                /\ (events[k].ended_at = Null /\ events[k].started_at < ws
                        /\ ws <= n /\ n <= we)
                      => o = (n - ws) * TickSeconds

\* a report counted an open event that started before its window, up to now
C14_Witness ==
    /\ report.view = "equipment"
    /\ \E k \in report.events_year :
          /\ events[k].ended_at = Null
          /\ events[k].started_at < report.year_start
          /\ report.year_start < report.now_ts
          /\ report.now_ts < report.year_end
          /\ report.overlaps[k] =
                (report.now_ts - report.year_start) * TickSeconds

\* the event lies entirely before window_start or entirely at/after window_end
OutsideWindow(ev, window_start, window_end) ==
    \/ ev.ended_at # Null /\ ev.ended_at <= window_start
    \/ ev.started_at >= window_end

\* a report summing per-equipment downtime was produced
SumsDowntime == report.view \in {"equipment", "plant"}

\* the events the report of an equipment is about, before the window prefilter
Candidates(e) == filter_category(EventsOf(e), report.cat_filter)

\* the events of the equipment the window prefilter kept
Kept(e) ==
    IF report.view = "equipment" THEN report.events_year
    ELSE { k \in report.events_qs : events[k].eq = e }

\* the downtime the report found for the equipment, in seconds
ReportedSeconds(e) ==
    IF report.view = "equipment" THEN report.total_seconds_year
    ELSE report.downtime_seconds_by_eq[e]

Reported(e) == report.view = "plant" \/ report.pk = e

\* C15: the window prefilter preserves the result: every event it excludes
\* lies entirely before window_start or at/after window_end and has
\* overlap_seconds = 0, so the downtime summed over the prefiltered events of
\* an equipment equals the downtime summed over all its events.
C15_PrefilterPreserves ==
    SumsDowntime =>
        \A e \in EquipmentIds :
            Reported(e) =>
                /\ \A k \in Candidates(e) \ Kept(e) :
                      /\ OutsideWindow(events[k], report.year_start, report.year_end)
                      /\ SpecOverlap(events[k], report.year_start,
                                     report.year_end, report.now_ts) = 0
                /\ \A k \in Candidates(e) :
                      OutsideWindow(events[k], report.year_start, report.year_end)
                          => k \notin Kept(e)
                /\ ReportedSeconds(e) =
                      SumOver(Candidates(e),
                              [k \in EventIds |->
                                  SpecOverlap(events[k], report.year_start,
                                              report.year_end, report.now_ts)])

\* the fleet report dropped the event of one equipment and counted the
\* event of another
C15_Witness ==
    /\ report.view = "plant"
    /\ \E e1, e2 \in EquipmentIds :
          /\ Candidates(e1) \ Kept(e1) # {}
          /\ ReportedSeconds(e2) > 0

\* C16: availability lies in [0, 1] and is 0 when window_seconds = 0; MTBF
\* and MTTR are never negative, and both are 0 when event_count = 0; for the
\* fleet figures of plant_dashboard and the per-equipment figures of
\* _mtbf_mttr_for_equipment.
C16_MetricsInRange ==
    /\ report.view = "plant" =>
          /\ report.availability.den > 0
          /\ report.availability.num >= 0
          /\ report.availability.num <= report.availability.den
          /\ report.availability_pct \in 0..10000
          /\ report.win_sec = 0 =>
                (report.availability.num = 0 /\ report.availability_pct = 0)
          /\ report.overall_mtbf_days >= 0
          /\ report.overall_mttr_days >= 0
          /\ report.total_event_count = 0 =>
                (report.overall_mtbf_days = 0 /\ report.overall_mttr_days = 0)
    /\ report.view = "kpis" =>
          /\ report.kpis.mtbf_days >= 0
          /\ report.kpis.mttr_days >= 0
          /\ report.kpis.event_count = 0 =>
                (report.kpis.mtbf_days = 0 /\ report.kpis.mttr_days = 0)

\* the fleet was down for longer in total than the window has run, so the
\* floor of the availability at zero was needed
C16_Witness ==
    /\ report.view = "plant"
    /\ report.win_sec > 0
    /\ report.availability.num = 0
    /\ SumOver(EquipmentIds, report.downtime_seconds_by_eq) > report.win_sec

\* C17: window_seconds is max(0, min(window_end, now) - window_start): 0 for
\* a window entirely in the future (now <= window_start), the full length of
\* the window once now >= window_end.
C17_WindowSeconds ==
    report.view = "plant" =>
        LET ws == report.year_start
            we == report.year_end
            n == report.now_ts
        IN
        /\ report.win_sec = Max(0, Min(we, n) - ws) * TickSeconds
        /\ n <= ws => report.win_sec = 0
        /\ n >= we => report.win_sec = (we - ws) * TickSeconds

\* a report was asked for while its window had run in part only
C17_Witness ==
    /\ report.view = "plant"
    /\ report.year_start < report.now_ts
    /\ report.now_ts < report.year_end
    /\ report.win_sec = (report.now_ts - report.year_start) * TickSeconds

\* DOWN 2024-03-01, UP 2024-03-03, window 2024, in clock instants counted
\* from 2024-01-01 (March 1st is day 60 of a leap year)
C19_Example ==
    round_days(Whole(overlap_seconds(
        [started_at |-> 60 * DayTicks, ended_at |-> 62 * DayTicks],
        0, 366 * DayTicks, 70 * DayTicks))) = 2000

\* the equipment was taken DOWN and brought UP once, at the timestamps t1
\* and t2 of its two log rows, inside the window of a report made at or
\* after t2 with no category filter
DownUpInWindow(e, t1, t2) ==
    /\ report.view # "none"
    /\ Reported(e)
    /\ report.view # "kpis" => report.cat_filter = NoFilter
    /\ hist[e] = << DOWN, UP >>
    /\ \E i, j \in LogsOf(e) :
          /\ i < j
          /\ logs[i].changed_at = t1
          /\ logs[j].changed_at = t2
    /\ report.year_start <= t1 /\ t1 < t2 /\ t2 <= report.year_end
    /\ report.now_ts >= t2

\* C19: an equipment that starts UP, goes DOWN at t1 and UP at t2 through
\* set_status, with window_start <= t1 < t2 <= window_end and now >= t2, is
\* reported with downtime t2 - t1 and one event (DOWN 2024-03-01, UP
\* 2024-03-03, window 2024: 2.0 days, one event).
C19_EndToEnd ==
    /\ C19_Example
    /\ \A e \in EquipmentIds, t1, t2 \in 1..Horizon :
          DownUpInWindow(e, t1, t2) =>
              LET sec == (t2 - t1) * TickSeconds IN
              CASE report.view = "kpis" ->
                      /\ report.kpis.downtime_days = round_days(Whole(sec))
                      /\ report.kpis.event_count = 1
                [] report.view = "equipment" ->
                      /\ report.total_seconds_year = sec
                      /\ report.total_days_year = round_days(Whole(sec))
                      /\ Cardinality(report.events_year) = 1
                [] report.view = "plant" ->
                      /\ report.downtime_seconds_by_eq[e] = sec
                      /\ report.event_count_by_eq[e] = 1

\* a downtime long enough to show in the rounded days was reported for an
\* equipment taken DOWN and brought UP inside the window
C19_Witness ==
    \E e \in EquipmentIds, t1, t2 \in 1..Horizon :
        /\ DownUpInWindow(e, t1, t2)
        /\ report.view = "kpis"
        /\ report.kpis.downtime_days > 0
        /\ report.kpis.event_count = 1

\* the equipment with downtime in the window of the fleet report
WithDowntime == { e \in EquipmentIds : report.downtime_seconds_by_eq[e] > 0 }

ParetoSet == { report.pareto_items[i].equipment_id :
                 i \in 1..Len(report.pareto_items) }

C20_SetAndOrder ==
    /\ ParetoSet = WithDowntime
    /\ Len(report.pareto_items) = Cardinality(WithDowntime)
    /\ \A i, j \in 1..Len(report.pareto_items) :
          i < j => report.pareto_items[i].downtime_days
                      >= report.pareto_items[j].downtime_days

\* the total downtime_days of all the equipment of the Pareto set
ParetoTotal ==
    SumSeq([i \in 1..Len(report.pareto_items) |->
               report.pareto_items[i].downtime_days], Len(report.pareto_items))

C20_Series ==
    LET pct == report.pareto_cum_pct
        n == Len(pct)
    IN
    /\ n = Min(top_n, Len(report.pareto_items))
    /\ \A i \in 1..n :
          /\ ParetoTotal > 0 =>
                pct[i] = round_pct([num |-> SumSeq(report.pareto_values, i),
                                    den |-> ParetoTotal])
          /\ pct[i] <= 10000
          /\ i < n => pct[i] <= pct[i + 1]

C20_Reaches100 ==
    LET pct == report.pareto_cum_pct
        n == Len(pct)
    IN n > 0 => ((pct[n] = 10000) <=> (Len(report.pareto_items) <= top_n))

\* C20: the Pareto set is exactly the equipment with nonzero downtime in the
\* window, by non-increasing downtime_days; the cumulative percentages over
\* the top-N are the running sum of downtime_days over the total of the whole
\* set, so they never decrease, never exceed 100, and reach 100 exactly when
\* the whole set is within the top-N.
C20_Pareto ==
    report.view = "plant" =>
        /\ C20_SetAndOrder
        /\ C20_Series
        /\ C20_Reaches100

\* the events of the equipment that match the window of the report
\* (started before its end, and open or ended after its start) and its
\* category filter, if the view takes one
Matching(e) ==
    { k \in EventsOf(e) :
        /\ events[k].started_at < report.year_end
        /\ (events[k].ended_at = Null \/ events[k].ended_at > report.year_start)
        /\ (report.view # "kpis" /\ report.cat_filter # NoFilter)
              => events[k].category = report.cat_filter }

\* the event_count the report gives for the equipment
ReportedCount(e) ==
    CASE report.view = "kpis" -> report.kpis.event_count
      [] report.view = "equipment" -> Cardinality(report.events_year)
      [] report.view = "plant" -> report.event_count_by_eq[e]

\* C21: the event_count of an equipment is the number of its events that
\* pass the window prefilter and the category filter, each counted once
\* whatever its clipped overlap is, also when the overlap is 0 or
\* window_seconds is 0, in every report path.
C21_EventCount ==
    report.view # "none" =>
        \A e \in EquipmentIds :
            Reported(e) => ReportedCount(e) = Cardinality(Matching(e))

\* the committed rows of one equipment
RowsOf(e, evs, lgs) ==
    << SelectSeq(evs, LAMBDA ev : ev.eq = e), SelectSeq(lgs, LAMBDA l : l.eq = e) >>

\* what the code decides for a call, from the object it runs on and the
\* committed rows of its own equipment when set_status began
OwnOutcome(r) ==
    /\ args[r].new_status # obj[r].status
    /\ IF args[r].new_status = DOWN THEN ~ atCall[r].open
       ELSE /\ atCall[r].open
            /\ args[r].changed_at > events[EventToClose(r)].started_at

\* a step changes the status, status_updated_at, events or log rows of an
\* equipment only when it commits a transition made on that equipment
FrameStep ==
    \A e \in EquipmentIds :
        ( \/ eqStatus'[e] # eqStatus[e]
          \/ eqUpdatedAt'[e] # eqUpdatedAt[e]
          \/ RowsOf(e, events', logs') # RowsOf(e, events, logs) )
        => \E r \in Requests :
              obj[r].eq = e /\ pc[r] = "written" /\ pc'[r] = "committed"

\* a request starts to wait only for a transaction on its own equipment
BlockStep ==
    \A r \in Requests :
        (pc[r] # "waiting" /\ pc'[r] = "waiting") =>
            \E q \in Requests \ {r} :
                obj[q].eq = obj[r].eq /\ pc[q] \in {"locked", "written"}

\* the outcome of a call that no transition on its own equipment interfered
\* with follows from that equipment alone
OutcomeFromOwnEquipment ==
    \A r \in Requests :
        (Entered(r) /\ Finished(r) /\ ~ interfered[r]) =>
            /\ (pc[r] = "committed") <=> OwnOutcome(r)
            /\ result[r] # "IntegrityError"

\* C23 (frame): a transition on one equipment never changes, blocks on or is
\* failed by anything of another equipment: a step changes the rows of an
\* equipment only by committing a transition on it, a request waits only for
\* a transaction on its own equipment, and a call's outcome follows from its
\* own equipment, so transitions on two equipment end the same way in either
\* commit order.
C23_Frame ==
    /\ [][FrameStep /\ BlockStep]_vars
    /\ []OutcomeFromOwnEquipment

\* transitions on the two equipment ran side by side and both committed,
\* the one that began later first
C23_Witness ==
    \E r1, r2 \in Requests :
        /\ pc[r1] = "committed" /\ pc[r2] = "committed"
        /\ obj[r1].eq = 1 /\ obj[r2].eq = 2
        /\ ~ interfered[r1] /\ ~ interfered[r2]
        /\ atCall[r1].nlogs = 0 /\ atCall[r2].nlogs = 0
        /\ Len(logs) = 2
        /\ logs[1].eq = 2

\* the commit of a transaction of request r
Commits(r) == pc[r] = "written" /\ pc'[r] = "committed"

\* what a committing transition adds to the events: one open event stamped
\* with the call's timestamp and comment and tied to the call's log entry
\* for a DOWN, nothing for an UP
CreatesItsEvent(r) ==
    IF args[r].new_status = DOWN
    THEN /\ Len(events') = Len(events) + 1
         /\ SubSeq(events', 1, Len(events)) = events
         /\ LET ev == events'[Len(events')] IN
            /\ ev.eq = obj[r].eq
            /\ ev.started_at = args[r].changed_at
            /\ ev.ended_at = Null
            /\ ev.start_comment = args[r].comment
            /\ ev.started_by_log = Len(logs')
            /\ logs'[Len(logs')].eq = obj[r].eq
            /\ logs'[Len(logs')].to_status = DOWN
    ELSE Len(events') = Len(events)

\* C25 (functional): a successful DOWN creates exactly one DowntimeEvent with
\* started_at = at_timestamp, ended_at null, the trimmed comment and the log
\* entry of that transition, a successful UP creates none, and a valid
\* submission of the web form reaches the engine with its category instead
\* of ending in a TypeError.
C25_DownCreatesEvent ==
    [][ \A r \in Requests :
          /\ Commits(r) => CreatesItsEvent(r)
          /\ result'[r] # "TypeError"
      ]_vars

\* the log entry of equipment e committed last
LastLogOf(e) == LET l == LogsOf(e) IN logs[CHOOSE i \in l : \A j \in l : j <= i]

\* in a committed state the equipment row agrees with its last log entry
\* and, while DOWN, with its open event
StampedByLastLog ==
    \A e \in EquipmentIds :
        /\ LogsOf(e) # {} =>
              /\ eqUpdatedAt[e] = LastLogOf(e).changed_at
              /\ eqStatus[e] = LastLogOf(e).to_status
        /\ eqStatus[e] = DOWN =>
              \A k \in OpenEvents(e) : events[k].started_at = eqUpdatedAt[e]

\* the transition of request r is the one committed last on its equipment
LastCommitted(r) ==
    /\ pc[r] = "committed"
    /\ ~ interfered[r]
    /\ Cardinality(LogsOf(obj[r].eq)) = atCall[r].nlogs + 1

\* C26 (invariants): a committed transition leaves the equipment with
\* status = new_status and status_updated_at = at_timestamp, so in every
\* committed state status_updated_at is the changed_at of the equipment's
\* most recently committed log entry and, while the equipment is DOWN, the
\* started_at of its open event.
C26_StatusStamp ==
    /\ \A r \in Requests :
          LastCommitted(r) =>
              /\ eqStatus[obj[r].eq] = args[r].new_status
              /\ eqUpdatedAt[obj[r].eq] = args[r].changed_at
    /\ StampedByLastLog

\* an equipment went DOWN, UP and DOWN again, the last time with a
\* timestamp of the caller that is not the time of the call
C26_Witness ==
    \E e \in EquipmentIds :
        /\ Cardinality(LogsOf(e)) = 3
        /\ eqStatus[e] = DOWN
        /\ OpenEvents(e) # {}
        /\ eqUpdatedAt[e] # now

\* the log entries of equipment e, in commit order
LogSeqOf(e) == SelectSeq(logs, LAMBDA l : l.eq = e)

\* C28 (invariants): the log entries of an equipment form a chain: every
\* entry has from_status # to_status, the first starts from the status the
\* equipment was created with, every later one from the to_status of the
\* entry before it, also for a transition that ran on an object loaded
\* before other transitions committed; and the equipment has as many
\* DowntimeEvents as committed entries with to_status DOWN.
C28_LogChain ==
    \A e \in EquipmentIds :
        LET l == LogSeqOf(e) IN
        /\ \A i \in 1..Len(l) :
              /\ l[i].from_status # l[i].to_status
              /\ l[i].from_status = IF i = 1 THEN UP ELSE l[i - 1].to_status
        /\ Cardinality(EventsOf(e)) =
              Cardinality({ i \in 1..Len(l) : l[i].to_status = DOWN })

\* a transition committed on an object that was loaded before another
\* transition on its equipment committed
C28_Witness ==
    \E r \in Requests :
        /\ pc[r] = "committed"
        /\ interfered[r]
        /\ Len(LogSeqOf(obj[r].eq)) >= 2

\* C29 (invariants): the events of one equipment never overlap in time: of
\* any two, one has ended_at set and at or before the started_at of the
\* other, so an open event starts at or after the end of every closed one.
C29_NoOverlap ==
    \A e \in EquipmentIds :
        \A j, k \in EventsOf(e) :
            j # k =>
                \/ events[j].ended_at # Null /\ events[j].ended_at <= events[k].started_at
                \/ events[k].ended_at # Null /\ events[k].ended_at <= events[j].started_at

\* the downtime a report shows for equipment e, in seconds
DowntimeShown(e) ==
    CASE report.view = "equipment" -> report.total_seconds_year
      [] report.view = "plant" -> report.downtime_seconds_by_eq[e]
      [] report.view = "kpis" ->
            SumOver(report.events_year,
                    Overlaps(report.year_start, report.year_end, report.now_ts))

\* C30 (safety): over any window the downtime_seconds of an equipment whose
\* events all come from transitions never exceeds window_seconds, so that
\* uptime = window_seconds - downtime_seconds without the clamp at 0 and
\* uptime + downtime = window_seconds.
C30_DowntimeWithinWindow ==
    report.view # "none" =>
        \A e \in EquipmentIds :
            Reported(e) =>
                LET win_sec == window_seconds(report.year_start, report.year_end,
                                              report.now_ts)
                    down == DowntimeShown(e)
                IN  /\ down <= win_sec
                    /\ uptime_seconds(win_sec, down) + down = win_sec

\* C22 (algebraic): the rollups of the dashboard are sums of the
\* per-equipment values: the fleet's downtime seconds and event count are the
\* sums over the equipment of the report, and the department rollups add up
\* to the fleet totals, also when a transition or a new equipment is
\* committed between the report's equipment read and its event read.
C22_Rollups ==
    report.view = "plant" =>
        LET depts == 1..Len(Departments) IN
        /\ report.total_downtime_sec =
              SumOver(report.equipment_qs, report.downtime_seconds_by_eq)
        /\ report.total_event_count =
              SumOver(report.equipment_qs, report.event_count_by_eq)
        /\ SumSeq(report.dept_seconds, Len(Departments)) = report.total_downtime_sec
        /\ SumOver(depts, [i \in depts |-> report.dept_rows[i].event_count])
              = report.total_event_count

\* the step is the commit of an UP transition that closes event k
ClosedByUp(k) ==
    \E r \in Requests :
        Commits(r) /\ args[r].new_status = UP /\ target[r] = k

\* C24 (safety): the history is append-only across every step: a committed
\* log entry is never modified or removed; an event is never removed, its
\* equipment, started_at, category, start comment and started_by_log never
\* change, its end fields are written once, by the UP that closes it, and a
\* closed event is never reopened or closed again.
C24_AppendOnly ==
    [][ /\ Len(logs') >= Len(logs)
        /\ SubSeq(logs', 1, Len(logs)) = logs
        /\ Len(events') >= Len(events)
        /\ \A k \in EventIds :
              LET old == events[k]
                  new == events'[k]
              IN /\ new.eq = old.eq
                 /\ new.started_at = old.started_at
                 /\ new.category = old.category
                 /\ new.start_comment = old.start_comment
                 /\ new.started_by_log = old.started_by_log
                 /\ old.ended_at # Null => new = old
                 /\ new # old => ClosedByUp(k)
      ]_vars

\* the step is the commit of a transition on equipment e
CommitOn(e) == \E r \in Requests : Commits(r) /\ obj[r].eq = e

\* the persisted status of an existing equipment changes only when a
\* transition on it commits
StatusKeptByForms ==
    \A e \in equipment : eqStatus'[e] # eqStatus[e] => CommitOn(e)

\* an equipment comes to be persisted as DOWN only by the commit of a DOWN
\* transition on it, which leaves it with an open event
DownOnlyByTransition ==
    \A e \in equipment' :
        (eqStatus'[e] = DOWN /\ ~ (e \in equipment /\ eqStatus[e] = DOWN)) =>
            /\ \E r \in Requests :
                  Commits(r) /\ obj[r].eq = e /\ args[r].new_status = DOWN
            /\ HasOpenEvent(e)'

\* C27 (frame): status is written only by the engine: saving an existing
\* equipment through the admin edit form never changes its persisted status,
\* and no equipment is persisted with status DOWN without an open event by
\* any path other than a DOWN transition.
C27_StatusOnlyByEngine ==
    [][StatusKeptByForms /\ DownOnlyByTransition]_vars

\* the request is inside the transaction of set_status
InTransaction(r) == pc[r] \in {"logged", "checked", "waiting", "locked", "written"}

\* C31 (liveness): under fair scheduling every transition that has begun
\* ends with a commit or an error; in particular a request blocked on the
\* row lock of the open event goes on once the holder commits or rolls
\* back, and no set of concurrent transitions, on the same or on different
\* equipment, deadlocks.
C31_Terminates ==
    \A r \in Requests : InTransaction(r) ~> Finished(r)

\* a request is blocked on the open-event row that another transaction has
\* locked
C31_Witness ==
    \E r \in Requests, q \in Requests :
        /\ pc[r] = "waiting"
        /\ Holds(q, target[r])

====
